---- MODULE Spec2Model ----
(***************************************************************************)
(* A model of NEMDE_constraints.py: the backward search over the monthly   *)
(* MMS archives (find_constraint, find_generic_RHS_func) and the term      *)
(* resolvers for one period (get_LHS_terms, get_RHS_terms,                 *)
(* get_generic_RHS_func, get_constraint_details).                          *)
(*                                                                         *)
(* Conventions.  A date is a record [y, m, d].  A text cell is a tuple of  *)
(* characters (identifiers, so that a prefix is a SubSeq) or a string.  A  *)
(* cell that read_csv found empty is NaN: the empty tuple for an           *)
(* identifier cell, the value NaN for a string cell.  The outcome of one   *)
(* get_mms_table call is [status, rows]: status "ok" with the raw rows of  *)
(* the extract (the trailer row last), or the error the call raises.       *)
(***************************************************************************)
EXTENDS Integers, Sequences, FiniteSets, TLC

VARIABLES
    func,        \* search: which search function runs
    prefix,      \* search: the constraint / equation_id argument
    start_date,  \* search: the start_date argument
    end_arg,     \* search: the end_date argument (NoDate when omitted)
    today,       \* search: date.today(), read only when end_date is omitted
    end_date,    \* search: the local end_date after defaulting
    cur_date,    \* search: the local cur_date
    df,          \* search: the local df
    found,       \* search: the returned flag
    probes,      \* search history: one [date, status] per get_mms_table call
    hits,        \* search history: [date, rows] of every month fetched with a match
    op,          \* terms: which single-period operation runs
    ident,       \* terms: the constraint / equation_id argument
    archive,     \* terms: the outcome of get_mms_table for each table of the period
    fetched,     \* terms history: the tables the operation asked for, in order
    result,      \* terms: the returned value
    pc,          \* position: "start", "loop", "done" (returned), "failed" (raised)
    err          \* the exception that left the operation, "" when none

vars == <<func, prefix, start_date, end_arg, today, end_date, cur_date, df,
          found, probes, hits, op, ident, archive, fetched, result, pc, err>>

searchVars == <<func, prefix, start_date, end_arg, today, end_date, cur_date,
                df, found, probes, hits>>

termVars == <<op, ident, archive, fetched, result>>

-----------------------------------------------------------------------------
(* Bounds of the model.                                                    *)

\* First month of the window the dates are drawn from.
WinYear == 2019

WinMonth == 11

\* Number of consecutive months in the window.
NumMonths == 5

\* Most data rows of a registry table in the search.
MaxRegRows == 2

\* Most data rows of the three LHS term tables of a period, taken together.
MaxLhsRows == 3

\* Most data rows of the DUDETAIL table.
MaxLookupRows == 2

\* Most data rows of an RHS term table.
MaxRhsRows == 2

\* Most data rows of the EMSMASTER table.
MaxEmsRows == 2

\* Most data rows of each table read by get_constraint_details.
MaxDetailRows == 1

-----------------------------------------------------------------------------
(* Dates: datetime.date and dateutil's relativedelta(months=n).            *)

NoDate == [y |-> 0, m |-> 0, d |-> 0]

IsLeap(y) == (y % 4 = 0 /\ y % 100 # 0) \/ y % 400 = 0

DaysInMonth(y, m) ==
    IF m = 2 THEN (IF IsLeap(y) THEN 29 ELSE 28)
    ELSE IF m \in {4, 6, 9, 11} THEN 30 ELSE 31

Min(a, b) == IF a < b THEN a ELSE b

\* date.__gt__: dates compare as (year, month, day).
DateGT(a, b) ==
    \/ a.y > b.y
    \/ a.y = b.y /\ a.m > b.m
    \/ a.y = b.y /\ a.m = b.m /\ a.d > b.d

MonthIndex(dt) == dt.y * 12 + (dt.m - 1)

\* dt - relativedelta(months=n), 0 <= n <= 12: the month moves back n, the
\* year follows, and the day is cut to the length of the month reached.
MinusMonths(dt, n) ==
    LET mm == dt.m - n
        yy == IF mm < 1 THEN dt.y - 1 ELSE dt.y
        m2 == IF mm < 1 THEN mm + 12 ELSE mm
    IN  [y |-> yy, m |-> m2, d |-> Min(dt.d, DaysInMonth(yy, m2))]

WinMonths == (WinYear * 12 + WinMonth - 1) .. (WinYear * 12 + WinMonth - 1 + NumMonths - 1)

DaySet == {1, 15, 29, 30, 31}

Dates ==
    {[y |-> i \div 12, m |-> (i % 12) + 1, d |-> dd] :
        <<i, dd>> \in {p \in WinMonths \X DaySet :
                          p[2] <= DaysInMonth(p[1] \div 12, (p[1] % 12) + 1)}}

-----------------------------------------------------------------------------
(* Tables.                                                                 *)

Errors == {"NotFoundError", "TransientIOError"}

Failure(e) == [status |-> e, rows |-> <<>>]

Ok(rows) == [status |-> "ok", rows |-> rows]

\* Sequences over S of length 0..n.
SeqUpTo(S, n) == UNION {[1..k -> S] : k \in 0..n}

\* The column of a registry table that holds the identifier.
IdColumn(f) == IF f = "find_constraint" THEN "GENCONID" ELSE "EQUATIONID"

Ids == {<<"Q", "A">>, <<"Q", "B">>, <<"S">>}

Prefixes == {<<"Q">>, <<"Q", "A">>}

\* A data row of a registry extract: columns 0..3 are the extract's record
\* type, report, table and version; then the identifier and the description.
RegistryRow(f, id) ==
    IF f = "find_constraint"
    THEN [c0 |-> "D", c1 |-> "GENCON", c2 |-> "GENCONDATA", c3 |-> "1",
          GENCONID |-> id, DESCRIPTION |-> "desc"]
    ELSE [c0 |-> "D", c1 |-> "GENERIC_CONSTRAINT", c2 |-> "GENERICEQUATIONDESC", c3 |-> "1",
          EQUATIONID |-> id, DESCRIPTION |-> "desc"]

\* The trailer row of an extract ("C,END OF REPORT,n"): its data cells are NaN.
RegistryTrailer(f) ==
    IF f = "find_constraint"
    THEN [c0 |-> "C", c1 |-> "END OF REPORT", c2 |-> "n", c3 |-> "NaN",
          GENCONID |-> <<>>, DESCRIPTION |-> "NaN"]
    ELSE [c0 |-> "C", c1 |-> "END OF REPORT", c2 |-> "n", c3 |-> "NaN",
          EQUATIONID |-> <<>>, DESCRIPTION |-> "NaN"]

RegistryOutcomes(f) ==
    {Ok(Append(rows, RegistryTrailer(f))) :
        rows \in SeqUpTo({RegistryRow(f, id) : id \in Ids}, MaxRegRows)}
    \cup {Failure(e) : e \in Errors}

\* df.drop(index=df.index[-1]): the table without its last row.
DropLast(rows) == SubSeq(rows, 1, Len(rows) - 1)

\* A variant that matches the whole identifier instead of its start.
StartsWithExact(id, p) == id = p

\* str.startswith
StartsWith(id, p) == Len(p) <= Len(id) /\ SubSeq(id, 1, Len(p)) = p

-----------------------------------------------------------------------------
(* The backward search: find_constraint and find_generic_RHS_func.          *)

SearchFuncs == {"find_constraint", "find_generic_RHS_func"}

\* if not end_date: end_date = date.today() - relativedelta(months=2)
DefaultEnd(e, t) == IF e = NoDate THEN MinusMonths(t, 2) ELSE e

\* A variant whose boundary test is cur_date >= start_date.
LoopCondInclusive(d, cur, start) == d = <<>> /\ ~DateGT(start, cur)

\* while df.empty and cur_date > start_date
LoopCond(d, cur, start) == d = <<>> /\ DateGT(cur, start)

\* A variant with a handler that swallows NotFoundError in the loop.
RaisesUnlessNotFound(out) == out.status = "TransientIOError"

\* get_mms_table raises what read_csv raises; the search has no handler.
Raises(out) == out.status # "ok"

\* The raw table without its trailer, then the rows whose identifier
\* starts with the prefix.
Filter(f, rows, p) ==
    SelectSeq(DropLast(rows), LAMBDA r : StartsWith(r[IdColumn(f)], p))

\* A variant that steps back two months.
StepBackTwo(cur) == MinusMonths(cur, 2)

\* cur_date - relativedelta(months=1)
StepBack(cur) == MinusMonths(cur, 1)

\* df.drop(df.columns[[0, 2, 3]], axis=1) on one row.
DropColumns(f, r) ==
    IF f = "find_constraint"
    THEN [c1 |-> r.c1, GENCONID |-> r.GENCONID, DESCRIPTION |-> r.DESCRIPTION]
    ELSE [c1 |-> r.c1, EQUATIONID |-> r.EQUATIONID, DESCRIPTION |-> r.DESCRIPTION]

\* A variant that returns the first row alone (df.iloc[0]).
ReturnedFirst(f, d) == <<DropColumns(f, d[1])>>

\* The frame returned when df is not empty: every row of df, columns dropped.
Returned(f, d) == [i \in 1..Len(d) |-> DropColumns(f, d[i])]

\* p is an initial segment of id.
IsPrefixOf(p, id) == \E k \in 0..Len(id) : p = [i \in 1..k |-> id[i]]

\* Whether a raw table holds, before its trailer, a row with the prefix.
HasMatch(f, rows, p) ==
    \E i \in 1..(Len(rows) - 1) : IsPrefixOf(p, rows[i][IdColumn(f)])

TermDefaults ==
    /\ op = "none"
    /\ ident = <<>>
    /\ archive = <<>>
    /\ fetched = <<>>
    /\ result = <<>>

InitSearch ==
    /\ func \in SearchFuncs
    /\ prefix \in Prefixes
    /\ start_date \in Dates
    /\ end_arg \in Dates \cup {NoDate}
    /\ today \in IF end_arg = NoDate THEN Dates ELSE {NoDate}
    /\ end_date = NoDate
    /\ cur_date = NoDate
    /\ df = <<>>
    /\ found = FALSE
    /\ probes = <<>>
    /\ hits = <<>>
    /\ pc = "start"
    /\ err = ""
    /\ TermDefaults

\* Lines 68-73 (259-264): the locals before the loop.
Begin ==
    /\ pc = "start"
    /\ op = "none"
    /\ df' = <<>>
    /\ end_date' = DefaultEnd(end_arg, today)
    /\ cur_date' = DefaultEnd(end_arg, today)
    /\ pc' = "loop"
    /\ UNCHANGED <<func, prefix, start_date, end_arg, today, found, probes, hits, err>>
    /\ UNCHANGED termVars

\* One iteration of the loop whose fetch succeeds.
Probe ==
    /\ pc = "loop"
    /\ LoopCond(df, cur_date, start_date)
    /\ \E out \in RegistryOutcomes(func) :
          /\ ~Raises(out)
          /\ df' = Filter(func, out.rows, prefix)
          /\ probes' = Append(probes, [date |-> cur_date, status |-> out.status])
          /\ hits' = IF HasMatch(func, out.rows, prefix)
                      THEN Append(hits, [date |-> cur_date, rows |-> out.rows])
                      ELSE hits
    /\ cur_date' = StepBack(cur_date)
    /\ UNCHANGED <<func, prefix, start_date, end_arg, today, end_date, found, pc, err>>
    /\ UNCHANGED termVars

\* One iteration of the loop whose fetch raises: the exception leaves the
\* function.
ProbeFails ==
    /\ pc = "loop"
    /\ LoopCond(df, cur_date, start_date)
    /\ \E out \in RegistryOutcomes(func) :
          /\ Raises(out)
          /\ probes' = Append(probes, [date |-> cur_date, status |-> out.status])
          /\ err' = out.status
    /\ pc' = "failed"
    /\ UNCHANGED <<func, prefix, start_date, end_arg, today, end_date, cur_date,
                   df, found, hits>>
    /\ UNCHANGED termVars

\* Lines 84-92 (275-283): the loop is left and the pair (df, found) returned.
Finish ==
    /\ pc = "loop"
    /\ ~LoopCond(df, cur_date, start_date)
    /\ found' = (df # <<>>)
    /\ df' = IF df = <<>> THEN df ELSE Returned(func, df)
    /\ pc' = "done"
    /\ UNCHANGED <<func, prefix, start_date, end_arg, today, end_date, cur_date,
                   probes, hits, err>>
    /\ UNCHANGED termVars

NextSearch == Begin \/ Probe \/ ProbeFails \/ Finish

SpecSearch == InitSearch /\ [][NextSearch]_vars

\* The loop is sequential code: whenever a step is possible it is taken.
FairSpecSearch == SpecSearch /\ WF_vars(NextSearch)

-----------------------------------------------------------------------------
(* The tables of one period and the rows they are drawn from.              *)

NaN == "NaN"

\* The identifier the single-period operations are asked about, and another
\* identifier that starts with it.
TermIdent == <<"Q", "A">>

OtherIdent == <<"Q", "A", "B">>

\* The column of an RHS table that holds the owning identifier.
OwnerColumn(o) == IF o = "get_generic_RHS_func" THEN "EQUATIONID" ELSE "GENCONID"

RhsTable(o) ==
    IF o = "get_generic_RHS_func" THEN "GENERICEQUATIONRHS" ELSE "GENERICCONSTRAINTRHS"

LhsTables ==
    {"SPDCONNECTIONPOINTCONSTRAINT", "DUDETAIL", "SPDINTERCONNECTORCONSTRAINT",
     "SPDREGIONCONSTRAINT"}

\* The tables an operation may fetch.
Constituents(o) ==
    CASE o = "get_LHS_terms" -> LhsTables
      [] o = "get_RHS_terms" -> {"GENERICCONSTRAINTRHS", "EMSMASTER"}
      [] o = "get_generic_RHS_func" -> {"GENERICEQUATIONRHS", "EMSMASTER"}
      [] OTHER -> {"GENCONDATA"} \cup LhsTables \cup {"GENERICCONSTRAINTRHS", "EMSMASTER"}

CPRow(g, cp) ==
    [GENCONID |-> g, CONNECTIONPOINTID |-> cp, FACTOR |-> 1, BIDTYPE |-> "ENERGY"]

CPTrailer == [GENCONID |-> <<>>, CONNECTIONPOINTID |-> NaN, FACTOR |-> 0, BIDTYPE |-> NaN]

CPRows == {CPRow(TermIdent, "P1"), CPRow(TermIdent, "P2"), CPRow(OtherIdent, "P1")}

DURow(cp, duid) == [CONNECTIONPOINTID |-> cp, DUID |-> duid]

DUTrailer == [CONNECTIONPOINTID |-> NaN, DUID |-> NaN]

DURows == {DURow("P1", "D1"), DURow("P1", "D2")}

ICRow(g, ic) == [GENCONID |-> g, INTERCONNECTORID |-> ic, FACTOR |-> 1]

ICTrailer == [GENCONID |-> <<>>, INTERCONNECTORID |-> NaN, FACTOR |-> 0]

ICRows == {ICRow(TermIdent, "I1"), ICRow(TermIdent, "I2"), ICRow(OtherIdent, "I1")}

RegionRow(g, rg) == [GENCONID |-> g, REGIONID |-> rg, FACTOR |-> 1]

RegionTrailer == [GENCONID |-> <<>>, REGIONID |-> NaN, FACTOR |-> 0]

RegionRows ==
    {RegionRow(TermIdent, "VIC1"), RegionRow(TermIdent, "NSW1"), RegionRow(OtherIdent, "VIC1")}

RhsRow(o, g, t, ty, operation) ==
    IF o = "get_generic_RHS_func"
    THEN [EQUATIONID |-> g, TERMID |-> t, SPD_ID |-> "S1", SPD_TYPE |-> ty,
          FACTOR |-> 1, OPERATION |-> operation]
    ELSE [GENCONID |-> g, TERMID |-> t, SPD_ID |-> "S1", SPD_TYPE |-> ty,
          FACTOR |-> 1, OPERATION |-> operation]

RhsTrailer(o) ==
    IF o = "get_generic_RHS_func"
    THEN [EQUATIONID |-> <<>>, TERMID |-> 0, SPD_ID |-> NaN, SPD_TYPE |-> NaN,
          FACTOR |-> 0, OPERATION |-> NaN]
    ELSE [GENCONID |-> <<>>, TERMID |-> 0, SPD_ID |-> NaN, SPD_TYPE |-> NaN,
          FACTOR |-> 0, OPERATION |-> NaN]

SpdTypes == {"A", "X", "Z"}

Operations == {NaN, "ADD"}

TermIds == {1, 2}

RhsRows(o) ==
    {RhsRow(o, TermIdent, t, ty, operation) :
        t \in TermIds, ty \in SpdTypes, operation \in Operations}
    \cup {RhsRow(o, OtherIdent, 1, "A", "ADD")}

EmsRow(id, d) == [SPD_ID |-> id, DESCRIPTION |-> d]

EmsTrailer == [SPD_ID |-> NaN, DESCRIPTION |-> NaN]

EmsRows == {EmsRow("S1", "d1"), EmsRow("S1", "d2"), EmsRow("S2", "d1")}

\* The outcomes of fetching a table of exactly n data rows; a fetch that
\* fails counts as no rows.
OutcomesOfLen(rows, trailer, n) ==
    {Ok(Append(data, trailer)) : data \in [1..n -> rows]}
    \cup (IF n = 0 THEN {Failure(e) : e \in Errors} ELSE {})

\* The outcomes of fetching a table of at most n data rows.
Outcomes(rows, trailer, n) == UNION {OutcomesOfLen(rows, trailer, k) : k \in 0..n}

-----------------------------------------------------------------------------
(* The single-period operations.                                           *)

\* An operation that raised e after asking for the tables f.
Raise(e, f) == [status |-> e, value |-> <<>>, fetched |-> f]

\* An operation that returned v after asking for the tables f.
Return(v, f) == [status |-> "ok", value |-> v, fetched |-> f]

\* A variant that filters by prefix, as the search does.
EqFilterPrefix(rows, col, c) ==
    SelectSeq(DropLast(rows), LAMBDA r : StartsWith(r[col], c))

\* The raw table without its trailer, then df[df[col] == c].
EqFilter(rows, col, c) == SelectSeq(DropLast(rows), LAMBDA r : r[col] = c)

\* A variant that fetches the lookup table whatever the term rows are.
NeedsLookupAlways(rows) == TRUE

\* if not df.empty: the lookup table is fetched only for some term row.
NeedsLookup(rows) == rows # <<>>

\* Lines 119-123: the first DUID of the connection point, or the placeholder.
LookupDUID(lookup, cp) ==
    LET hit == SelectSeq(lookup, LAMBDA r : r.CONNECTIONPOINTID = cp)
    IN  IF hit = <<>> THEN "DUID not found" ELSE hit[1].DUID

ConnectionPointTerm(r, lookup) ==
    [type |-> "CONNECTIONPOINT", ID |-> r.CONNECTIONPOINTID,
     DUID |-> LookupDUID(lookup, r.CONNECTIONPOINTID),
     factor |-> r.FACTOR, bidtype |-> r.BIDTYPE]

InterconnectorTerm(r) ==
    [type |-> "INTERCONNECTOR", ID |-> r.INTERCONNECTORID, DUID |-> r.INTERCONNECTORID,
     factor |-> r.FACTOR, bidtype |-> "N/A"]

RegionTerm(r) ==
    [type |-> "REGION", ID |-> r.REGIONID, DUID |-> r.REGIONID,
     factor |-> r.FACTOR, bidtype |-> "N/A"]

\* get_LHS_terms(constraint, month, year) against the tables arch.
LHSTerms(arch, c) ==
    LET t1 == arch["SPDCONNECTIONPOINTCONSTRAINT"]
        cp == EqFilter(t1.rows, "GENCONID", c)
        t2 == arch["DUDETAIL"]
        lookup == DropLast(t2.rows)
        f2 == IF NeedsLookup(cp)
              THEN <<"SPDCONNECTIONPOINTCONSTRAINT", "DUDETAIL">>
              ELSE <<"SPDCONNECTIONPOINTCONSTRAINT">>
        cpTerms == [i \in 1..Len(cp) |-> ConnectionPointTerm(cp[i], lookup)]
        t3 == arch["SPDINTERCONNECTORCONSTRAINT"]
        ic == EqFilter(t3.rows, "GENCONID", c)
        f3 == Append(f2, "SPDINTERCONNECTORCONSTRAINT")
        icTerms == [i \in 1..Len(ic) |-> InterconnectorTerm(ic[i])]
        t4 == arch["SPDREGIONCONSTRAINT"]
        rg == EqFilter(t4.rows, "GENCONID", c)
        f4 == Append(f3, "SPDREGIONCONSTRAINT")
        rgTerms == [i \in 1..Len(rg) |-> RegionTerm(rg[i])]
    IN  IF Raises(t1) THEN Raise(t1.status, <<"SPDCONNECTIONPOINTCONSTRAINT">>)
        ELSE IF NeedsLookup(cp) /\ Raises(t2) THEN Raise(t2.status, f2)
        ELSE IF Raises(t3) THEN Raise(t3.status, f3)
        ELSE IF Raises(t4) THEN Raise(t4.status, f4)
        ELSE Return(cpTerms \o icTerms \o rgTerms, f4)

\* ['A', 'S', 'I', 'T', 'R']
ScadaTypes == {"A", "S", "I", "T", "R"}

\* A variant that describes a constraint's term as a generic function's.
DescribeAsGeneric(o, r, ems) ==
    IF r.SPD_TYPE \in ScadaTypes
    THEN LET df1 == SelectSeq(ems, LAMBDA e : e.SPD_ID = r.SPD_ID)
         IN  IF df1 = <<>> THEN "-" ELSE df1[1].DESCRIPTION
    ELSE "-"

\* Lines 189-203 (315-323): the description of one term.
Describe(o, r, ems) ==
    IF r.SPD_TYPE \in ScadaTypes
    THEN LET df1 == SelectSeq(ems, LAMBDA e : e.SPD_ID = r.SPD_ID)
         IN  IF df1 = <<>> THEN "-" ELSE df1[1].DESCRIPTION
    ELSE IF o # "get_generic_RHS_func" /\ r.SPD_TYPE = "X"
    THEN "Generic RHS function"
    ELSE "-"

\* str() of a cell: NaN prints as 'nan', a string as itself.
Str(v) == IF v = NaN THEN "nan" ELSE v

\* A variant that keeps what str() gave.
OperationText(v) == Str(v)

\* Lines 205-207 (325-327).
Operation(v) == IF Str(v) = "nan" THEN "-" ELSE Str(v)

RhsTerm(o, r, ems) ==
    [term_ID |-> r.TERMID, ID |-> r.SPD_ID, type |-> r.SPD_TYPE,
     description |-> Describe(o, r, ems), factor |-> r.FACTOR,
     operation |-> Operation(r.OPERATION)]

\* The rows collected by get_RHS_terms / get_generic_RHS_func, before the sort.
RHSRowsCollected(arch, c, o) ==
    LET t1 == arch[RhsTable(o)]
        rows == EqFilter(t1.rows, OwnerColumn(o), c)
        t2 == arch["EMSMASTER"]
        ems == DropLast(t2.rows)
    IN  IF Raises(t1) THEN Raise(t1.status, <<RhsTable(o)>>)
        ELSE IF ~NeedsLookup(rows) THEN Return(<<>>, <<RhsTable(o)>>)
        ELSE IF Raises(t2) THEN Raise(t2.status, <<RhsTable(o), "EMSMASTER">>)
        ELSE Return([i \in 1..Len(rows) |-> RhsTerm(o, rows[i], ems)],
                    <<RhsTable(o), "EMSMASTER">>)

IsSorted(s) == \A i \in 1..(Len(s) - 1) : s[i].term_ID <= s[i + 1].term_ID

\* A variant that leaves the rows as collected.
Unsorted(s) == {s}

\* sort_values(by='term_ID'): the default kind is quicksort, which is not
\* stable; the frames it may give are the orderings of the rows that ascend
\* in term_ID.
SortValues(s) ==
    {t \in {[i \in 1..Len(s) |-> s[pi[i]]] : pi \in Permutations(1..Len(s))} : IsSorted(t)}

\* What get_RHS_terms / get_generic_RHS_func may give.
RHSTerms(arch, c, o) ==
    LET r == RHSRowsCollected(arch, c, o)
    IN  IF r.status = "ok"
        THEN {Return(v, r.fetched) : v \in SortValues(r.value)}
        ELSE {r}

\* What get_constraint_details may give.
ConstraintDetails(arch, c) ==
    LET t0 == arch["GENCONDATA"]
        d0 == EqFilter(t0.rows, "GENCONID", c)
        d == IF d0 = <<>> THEN d0 ELSE Returned("find_constraint", d0)
        l == LHSTerms(arch, c)
    IN  IF Raises(t0) THEN {Raise(t0.status, <<"GENCONDATA">>)}
        ELSE IF l.status # "ok" THEN {Raise(l.status, <<"GENCONDATA">> \o l.fetched)}
        ELSE {IF r.status # "ok"
              THEN Raise(r.status, <<"GENCONDATA">> \o l.fetched \o r.fetched)
              ELSE Return([df |-> d, LHS |-> l.value, RHS |-> r.value],
                          <<"GENCONDATA">> \o l.fetched \o r.fetched) :
              r \in RHSTerms(arch, c, "get_RHS_terms")}

SearchDefaults ==
    /\ func = "none"
    /\ prefix = <<>>
    /\ start_date = NoDate
    /\ end_arg = NoDate
    /\ today = NoDate
    /\ end_date = NoDate
    /\ cur_date = NoDate
    /\ df = <<>>
    /\ found = FALSE
    /\ probes = <<>>
    /\ hits = <<>>

InitLHS ==
    /\ op = "get_LHS_terms"
    /\ \E n1 \in 0..MaxLhsRows :
       \E n2 \in 0..(MaxLhsRows - n1) :
       \E n3 \in 0..(MaxLhsRows - n1 - n2) :
       \E cp \in OutcomesOfLen(CPRows, CPTrailer, n1) :
       \E ic \in OutcomesOfLen(ICRows, ICTrailer, n2) :
       \E rg \in OutcomesOfLen(RegionRows, RegionTrailer, n3) :
       \E du \in Outcomes(DURows, DUTrailer, MaxLookupRows) :
          archive = [t \in LhsTables |->
                        CASE t = "SPDCONNECTIONPOINTCONSTRAINT" -> cp
                          [] t = "SPDINTERCONNECTORCONSTRAINT" -> ic
                          [] t = "SPDREGIONCONSTRAINT" -> rg
                          [] OTHER -> du]

InitRHS ==
    /\ op \in {"get_RHS_terms", "get_generic_RHS_func"}
    /\ \E rhs \in Outcomes(RhsRows(op), RhsTrailer(op), MaxRhsRows) :
       \E ems \in Outcomes(EmsRows, EmsTrailer, MaxEmsRows) :
          archive = [t \in Constituents(op) |-> IF t = "EMSMASTER" THEN ems ELSE rhs]

\* The one data row each table of get_constraint_details is drawn from, and
\* the table's trailer.
DetailRow(t) ==
    CASE t = "GENCONDATA" -> RegistryRow("find_constraint", TermIdent)
      [] t = "SPDCONNECTIONPOINTCONSTRAINT" -> CPRow(TermIdent, "P1")
      [] t = "DUDETAIL" -> DURow("P1", "D1")
      [] t = "SPDINTERCONNECTORCONSTRAINT" -> ICRow(TermIdent, "I1")
      [] t = "SPDREGIONCONSTRAINT" -> RegionRow(TermIdent, "VIC1")
      [] t = "GENERICCONSTRAINTRHS" -> RhsRow("get_RHS_terms", TermIdent, 1, "A", NaN)
      [] OTHER -> EmsRow("S1", "d1")

DetailTrailer(t) ==
    CASE t = "GENCONDATA" -> RegistryTrailer("find_constraint")
      [] t = "SPDCONNECTIONPOINTCONSTRAINT" -> CPTrailer
      [] t = "DUDETAIL" -> DUTrailer
      [] t = "SPDINTERCONNECTORCONSTRAINT" -> ICTrailer
      [] t = "SPDREGIONCONSTRAINT" -> RegionTrailer
      [] t = "GENERICCONSTRAINTRHS" -> RhsTrailer("get_RHS_terms")
      [] OTHER -> EmsTrailer

DetailOutcomes(t) == Outcomes({DetailRow(t)}, DetailTrailer(t), MaxDetailRows)

InitDetails ==
    /\ op = "get_constraint_details"
    /\ \E t0 \in DetailOutcomes("GENCONDATA") :
       \E t1 \in DetailOutcomes("SPDCONNECTIONPOINTCONSTRAINT") :
       \E t2 \in DetailOutcomes("DUDETAIL") :
       \E t3 \in DetailOutcomes("SPDINTERCONNECTORCONSTRAINT") :
       \E t4 \in DetailOutcomes("SPDREGIONCONSTRAINT") :
       \E t5 \in DetailOutcomes("GENERICCONSTRAINTRHS") :
       \E t6 \in DetailOutcomes("EMSMASTER") :
          archive = [t \in Constituents(op) |->
                        CASE t = "GENCONDATA" -> t0
                          [] t = "SPDCONNECTIONPOINTCONSTRAINT" -> t1
                          [] t = "DUDETAIL" -> t2
                          [] t = "SPDINTERCONNECTORCONSTRAINT" -> t3
                          [] t = "SPDREGIONCONSTRAINT" -> t4
                          [] t = "GENERICCONSTRAINTRHS" -> t5
                          [] OTHER -> t6]

InitTerms ==
    /\ InitLHS \/ InitRHS \/ InitDetails
    /\ ident = TermIdent
    /\ fetched = <<>>
    /\ result = <<>>
    /\ pc = "start"
    /\ err = ""
    /\ SearchDefaults

\* The operation ends as r says: it returns r.value or raises r.status.
Conclude(r) ==
    /\ fetched' = r.fetched
    /\ result' = r.value
    /\ pc' = IF r.status = "ok" THEN "done" ELSE "failed"
    /\ err' = IF r.status = "ok" THEN "" ELSE r.status
    /\ UNCHANGED <<op, ident, archive>>
    /\ UNCHANGED searchVars

GetLHSTerms ==
    /\ pc = "start"
    /\ op = "get_LHS_terms"
    /\ Conclude(LHSTerms(archive, ident))

GetRHSTerms ==
    /\ pc = "start"
    /\ op = "get_RHS_terms"
    /\ \E r \in RHSTerms(archive, ident, "get_RHS_terms") : Conclude(r)

GetGenericRHSFunc ==
    /\ pc = "start"
    /\ op = "get_generic_RHS_func"
    /\ \E r \in RHSTerms(archive, ident, "get_generic_RHS_func") : Conclude(r)

GetConstraintDetails ==
    /\ pc = "start"
    /\ op = "get_constraint_details"
    /\ \E r \in ConstraintDetails(archive, ident) : Conclude(r)

NextTerms == GetLHSTerms \/ GetRHSTerms \/ GetGenericRHSFunc \/ GetConstraintDetails

SpecTerms == InitTerms /\ [][NextTerms]_vars

-----------------------------------------------------------------------------
(* Properties of the backward search.                                      *)

FirstOfMonth(dt) == [y |-> dt.y, m |-> dt.m, d |-> 1]

\* The indices of the data rows of a raw table whose identifier starts with p.
MatchIndices(f, rows, p) ==
    {j \in 1..(Len(rows) - 1) : IsPrefixOf(p, rows[j][IdColumn(f)])}

\* C1 as claimed: a probe that fails with NotFoundError does not fail the
\* search.
C1_Original ==
    \A i \in DOMAIN probes : probes[i].status = "NotFoundError" => pc # "failed"

\* C1 as amended: a probe whose fetch fails, with NotFoundError or any other
\* error, is the last probe; the search fails as a whole with that error and
\* returns nothing, and a search that failed failed at its last probe.
C1_ErrorPropagates ==
    /\ \A i \in DOMAIN probes :
          probes[i].status # "ok" =>
              /\ i = Len(probes)
              /\ pc = "failed"
              /\ err = probes[i].status
              /\ found = FALSE
              /\ df = <<>>
    /\ pc = "failed" => probes # <<>> /\ probes[Len(probes)].status \in Errors

C1_Witness ==
    /\ pc = "failed"
    /\ err = "NotFoundError"
    /\ Len(probes) >= 2

\* C2: the search returns found = TRUE exactly when some probed month's
\* table, without its trailer, has a record with the prefix; the returned
\* records then come from the most recent such month, which is the last
\* month probed; with no such month it returns found = FALSE and an empty
\* result.
C2_FoundIffMatch ==
    pc = "done" =>
        /\ found <=> hits # <<>>
        /\ ~found => df = <<>>
        /\ found =>
              /\ df # <<>>
              /\ \A k \in DOMAIN hits : ~DateGT(hits[k].date, hits[1].date)
              /\ \A i \in DOMAIN probes :
                    DateGT(probes[i].date, hits[1].date) =>
                        \A k \in DOMAIN hits : hits[k].date # probes[i].date
              /\ \A i \in DOMAIN df :
                    \E j \in MatchIndices(func, hits[1].rows, prefix) :
                        /\ df[i][IdColumn(func)] = hits[1].rows[j][IdColumn(func)]
                        /\ df[i].DESCRIPTION = hits[1].rows[j].DESCRIPTION

C2_Witness ==
    /\ pc = "done"
    /\ found
    /\ Len(probes) >= 2
    /\ hits # <<>>
    /\ hits[1].date = probes[Len(probes)].date

\* C3 as claimed: no month is fetched whose first day is on or before
\* start_date.
C3_Original ==
    \A i \in DOMAIN probes : DateGT(FirstOfMonth(probes[i].date), start_date)

\* C3 as amended: the first probe date is end_date itself, day of month
\* kept; every probe date is strictly after start_date, so no month before
\* the one that contains start_date is fetched.
C3_ProbeAfterStart ==
    /\ probes # <<>> => probes[1].date = end_date
    /\ \A i \in DOMAIN probes :
          /\ DateGT(probes[i].date, start_date)
          /\ MonthIndex(probes[i].date) >= MonthIndex(start_date)

\* The month of start_date, a first of the month, is fetched.
C3_Witness ==
    /\ start_date.d = 1
    /\ \E i \in DOMAIN probes :
          /\ MonthIndex(probes[i].date) = MonthIndex(start_date)
          /\ i >= 2

\* C4 as claimed: the match returned is one record.
C4_Original == (pc = "done" /\ found) => Len(df) = 1

\* C4 as amended: the result returned is every matching record of the
\* month, in source order, columns 0, 2 and 3 dropped; its first record is
\* the first matching record in source order.
C4_AllMatchesInOrder ==
    (pc = "done" /\ found /\ hits # <<>>) =>
        LET rows == hits[1].rows
            M == MatchIndices(func, rows, prefix)
        IN  /\ Len(df) = Cardinality(M)
            /\ \A i \in DOMAIN df :
                  \E j \in M :
                      /\ Cardinality({k \in M : k <= j}) = i
                      /\ DOMAIN df[i] = {"c1", IdColumn(func), "DESCRIPTION"}
                      /\ df[i][IdColumn(func)] = rows[j][IdColumn(func)]
                      /\ df[i].DESCRIPTION = rows[j].DESCRIPTION
                      /\ df[i].c1 = rows[j].c1

C4_Witness ==
    /\ pc = "done"
    /\ found
    /\ Len(df) = 2
    /\ df[1] # df[2]

\* The fetches of a search: consecutive calendar months, newest first,
\* from the month of end_date, none when end_date is not after start_date,
\* none after the first month with a match.
C10_Fetches ==
    /\ probes # <<>> => MonthIndex(probes[1].date) = MonthIndex(end_date)
    /\ \A i \in 2..Len(probes) :
          MonthIndex(probes[i].date) = MonthIndex(probes[i - 1].date) - 1
    /\ (pc # "start" /\ ~DateGT(end_date, start_date)) => probes = <<>>
    /\ hits # <<>> => Len(hits) = 1 /\ hits[1].date = probes[Len(probes)].date
    /\ Len(probes) <= MonthIndex(end_date) - MonthIndex(start_date) + 1 \/ probes = <<>>

\* C10: the search terminates, and its fetches are one per month,
\* consecutive and decreasing, with none after the first match.
C10_Terminates == [](C10_Fetches) /\ <>(pc \in {"done", "failed"})

\* A finished search from the 31st that stepped through shorter months.
C10_Witness ==
    /\ pc = "done"
    /\ end_date.d = 31
    /\ Len(probes) >= 3
    /\ \E i \in DOMAIN probes : probes[i].date.d < 31
    /\ \A i \in DOMAIN probes : probes[i].status = "ok"

-----------------------------------------------------------------------------
(* Properties of the single-period operations.                             *)

RhsOps == {"get_RHS_terms", "get_generic_RHS_func"}

\* The indices of the data rows of table t owned by the identifier asked
\* about; none when the table could not be fetched.
OwnedIndices(t, col) ==
    {j \in 1..(Len(archive[t].rows) - 1) : archive[t].rows[j][col] = ident}

\* The i-th smallest element of the set M of indices.
IthOf(M, i) == CHOOSE j \in M : Cardinality({k \in M : k <= j}) = i

\* The data rows of table t.
DataOf(t) == [j \in 1..(Len(archive[t].rows) - 1) |-> archive[t].rows[j]]

Ascending(s) == \A i, j \in DOMAIN s : i < j => s[i].term_ID <= s[j].term_ID

\* t holds the rows of s in an ascending order that keeps rows of equal
\* term_ID in the order they have in s.
StableSortOf(s, t) ==
    /\ Len(t) = Len(s)
    /\ Ascending(t)
    /\ \E pi \in Permutations(1..Len(s)) :
          /\ \A i \in DOMAIN t : t[i] = s[pi[i]]
          /\ \A i, j \in DOMAIN t :
                (i < j /\ t[i].term_ID = t[j].term_ID) => pi[i] < pi[j]

PermutationOf(s, t) ==
    /\ Len(t) = Len(s)
    /\ \E pi \in Permutations(1..Len(s)) : \A i \in DOMAIN t : t[i] = s[pi[i]]

\* An output term made from the source row r.
MadeFrom(t, r) ==
    /\ t.term_ID = r.TERMID
    /\ t.type = r.SPD_TYPE
    /\ t.ID = r.SPD_ID
    /\ t.factor = r.FACTOR
    /\ (t.operation = "-" <=> r.OPERATION = NaN)

\* C5 as claimed: the output is the stable sort of the collected rows: it
\* ascends in term_ID and rows of equal term_ID keep their fetch order.
C5_Original ==
    (pc = "done" /\ op \in RhsOps) =>
        StableSortOf(RHSRowsCollected(archive, ident, op).value, result)

\* C5 as amended: the output holds the collected rows in an order ascending
\* in term_ID; rows of equal term_ID may come in either order; sorting the
\* output again gives the same sequence of term_IDs, and the same output
\* when the term_IDs differ; with no matching row the output is empty.
C5_SortedPermutation ==
    (pc = "done" /\ op \in RhsOps) =>
        /\ Ascending(result)
        /\ PermutationOf(RHSRowsCollected(archive, ident, op).value, result)
        /\ Len(result) = Cardinality(OwnedIndices(RhsTable(op), OwnerColumn(op)))
        /\ \A again \in SortValues(result) :
              /\ \A i \in DOMAIN result : again[i].term_ID = result[i].term_ID
              /\ (\A i, j \in DOMAIN result :
                     i # j => result[i].term_ID # result[j].term_ID) => again = result
        /\ OwnedIndices(RhsTable(op), OwnerColumn(op)) = {} => result = <<>>

\* The sort moved a row.
C5_Witness ==
    /\ pc = "done"
    /\ op \in RhsOps
    /\ Len(result) = 2
    /\ result[1].term_ID < result[2].term_ID
    /\ DataOf(RhsTable(op))[1].TERMID > DataOf(RhsTable(op))[2].TERMID

\* The description the claim gives the source row r.
ClaimedDescription(r) ==
    LET ems == DataOf("EMSMASTER")
        same == {k \in DOMAIN ems : ems[k].SPD_ID = r.SPD_ID}
    IN  IF r.SPD_TYPE \in {"A", "S", "I", "T", "R"}
        THEN (IF same = {} THEN "-" ELSE ems[IthOf(same, 1)].DESCRIPTION)
        ELSE IF r.SPD_TYPE = "X" /\ op = "get_RHS_terms" THEN "Generic RHS function"
        ELSE "-"

\* C6: every output term has the description its spd_type calls for: for A,
\* S, I, T, R the description of the (first) EMSMASTER record with the same
\* SPD_ID, or "-" without one; "Generic RHS function" for X of a constraint;
\* "-" otherwise, X of a generic function included.
C6_Description ==
    (pc = "done" /\ op \in RhsOps) =>
        LET src == DataOf(RhsTable(op))
            own == OwnedIndices(RhsTable(op), OwnerColumn(op))
        IN  /\ \A i \in DOMAIN result :
                  \E j \in own :
                      /\ MadeFrom(result[i], src[j])
                      /\ result[i].description = ClaimedDescription(src[j])
            /\ \A j \in own :
                  \E i \in DOMAIN result :
                      /\ MadeFrom(result[i], src[j])
                      /\ result[i].description = ClaimedDescription(src[j])

\* A constraint with a generic-function term and a SCADA term that the
\* second EMSMASTER record describes.
C6_Witness ==
    /\ pc = "done"
    /\ op = "get_RHS_terms"
    /\ \E i \in DOMAIN result :
          result[i].type = "X" /\ result[i].description = "Generic RHS function"
    /\ \E i \in DOMAIN result :
          result[i].type = "A" /\ result[i].description = "d2"
    /\ DataOf("EMSMASTER")[1].SPD_ID = "S2"

\* C7: the LHS terms are the owned connection-point rows, then the owned
\* interconnector rows, then the owned region rows, each group in source
\* order; interconnector and region terms carry their own id as DUID and
\* bid type "N/A"; a connection point without a device carries
\* "DUID not found", one with devices the DUID of the first.
C7_LhsTerms ==
    (pc = "done" /\ op = "get_LHS_terms") =>
        LET cps == DataOf("SPDCONNECTIONPOINTCONSTRAINT")
            ics == DataOf("SPDINTERCONNECTORCONSTRAINT")
            rgs == DataOf("SPDREGIONCONSTRAINT")
            cpM == OwnedIndices("SPDCONNECTIONPOINTCONSTRAINT", "GENCONID")
            icM == OwnedIndices("SPDINTERCONNECTORCONSTRAINT", "GENCONID")
            rgM == OwnedIndices("SPDREGIONCONSTRAINT", "GENCONID")
            n1 == Cardinality(cpM)
            n2 == Cardinality(icM)
            n3 == Cardinality(rgM)
        IN  /\ Len(result) = n1 + n2 + n3
            /\ \A i \in 1..n1 :
                  LET r == cps[IthOf(cpM, i)]
                      du == DataOf("DUDETAIL")
                      dev == {k \in DOMAIN du : du[k].CONNECTIONPOINTID = r.CONNECTIONPOINTID}
                  IN  /\ result[i].type = "CONNECTIONPOINT"
                      /\ result[i].ID = r.CONNECTIONPOINTID
                      /\ result[i].factor = r.FACTOR
                      /\ result[i].bidtype = r.BIDTYPE
                      /\ dev = {} => result[i].DUID = "DUID not found"
                      /\ dev # {} => result[i].DUID = du[IthOf(dev, 1)].DUID
            /\ \A i \in 1..n2 :
                  LET r == ics[IthOf(icM, i)]
                  IN  /\ result[n1 + i].type = "INTERCONNECTOR"
                      /\ result[n1 + i].ID = r.INTERCONNECTORID
                      /\ result[n1 + i].DUID = r.INTERCONNECTORID
                      /\ result[n1 + i].factor = r.FACTOR
                      /\ result[n1 + i].bidtype = "N/A"
            /\ \A i \in 1..n3 :
                  LET r == rgs[IthOf(rgM, i)]
                  IN  /\ result[n1 + n2 + i].type = "REGION"
                      /\ result[n1 + n2 + i].ID = r.REGIONID
                      /\ result[n1 + n2 + i].DUID = r.REGIONID
                      /\ result[n1 + n2 + i].factor = r.FACTOR
                      /\ result[n1 + n2 + i].bidtype = "N/A"

\* One term of each category, the connection point without a device.
C7_Witness ==
    /\ pc = "done"
    /\ op = "get_LHS_terms"
    /\ Len(result) = 3
    /\ result[1].type = "CONNECTIONPOINT"
    /\ result[1].DUID = "DUID not found"
    /\ result[2].type = "INTERCONNECTOR"
    /\ result[3].type = "REGION"
    /\ result[3].ID = "VIC1"

Finished == op # "none" /\ pc \in {"done", "failed"}

\* C8 as claimed: an operation that returns a result fetched every one of
\* its constituent tables.
C8_Original ==
    (Finished /\ \E t \in Constituents(op) : archive[t].status # "ok") => pc = "failed"

\* The term table whose rows decide whether the lookup table t is read.
TermTableOf(t) ==
    IF t = "DUDETAIL" THEN "SPDCONNECTIONPOINTCONSTRAINT"
    ELSE IF op = "get_generic_RHS_func" THEN "GENERICEQUATIONRHS"
    ELSE "GENERICCONSTRAINTRHS"

\* A lookup table that is not read: its term table has no row of the
\* identifier.
NotRead(t) ==
    /\ t \in {"DUDETAIL", "EMSMASTER"}
    /\ archive[TermTableOf(t)].status = "ok"
    /\ OwnedIndices(TermTableOf(t), IF t = "DUDETAIL" THEN "GENCONID" ELSE OwnerColumn(op)) = {}

\* C8 as amended: the operation fails, with the error of the first fetch
\* that failed and without a result, exactly when a table it reads fails to
\* fetch; DUDETAIL and EMSMASTER are read only when the term table has a row
\* of the identifier, so with no such row their failure goes unnoticed.
C8_NoPartialResult ==
    Finished =>
        /\ pc = "failed" <=>
              \E t \in Constituents(op) : archive[t].status # "ok" /\ ~NotRead(t)
        /\ \A i \in 1..(Len(fetched) - 1) : archive[fetched[i]].status = "ok"
        /\ fetched # <<>>
        /\ pc = "failed" =>
              /\ result = <<>>
              /\ err \in Errors
              /\ err = archive[fetched[Len(fetched)]].status
        /\ pc = "done" =>
              /\ err = ""
              /\ archive[fetched[Len(fetched)]].status = "ok"

\* get_LHS_terms fails at DUDETAIL after it read the connection points.
C8_Witness ==
    /\ pc = "failed"
    /\ op = "get_LHS_terms"
    /\ fetched = <<"SPDCONNECTIONPOINTCONSTRAINT", "DUDETAIL">>
    /\ err = "TransientIOError"

\* C9: the operation of every output term is "-" when the source cell is
\* NaN and the source cell otherwise; it is never NaN nor "nan".
C9_Operation ==
    (pc = "done" /\ op \in RhsOps) =>
        LET src == DataOf(RhsTable(op))
            own == OwnedIndices(RhsTable(op), OwnerColumn(op))
            Claimed(r) == IF r.OPERATION = NaN THEN "-" ELSE r.OPERATION
            Same(t, r) == t.term_ID = r.TERMID /\ t.type = r.SPD_TYPE /\ t.ID = r.SPD_ID
        IN  /\ \A i \in DOMAIN result : result[i].operation \notin {NaN, "nan"}
            /\ \A i \in DOMAIN result :
                  \E j \in own : Same(result[i], src[j]) /\ result[i].operation = Claimed(src[j])
            /\ \A j \in own :
                  \E i \in DOMAIN result : Same(result[i], src[j]) /\ result[i].operation = Claimed(src[j])

\* A generic function with an unset and a set operation.
C9_Witness ==
    /\ pc = "done"
    /\ op = "get_generic_RHS_func"
    /\ \E i \in DOMAIN result : result[i].operation = "-"
    /\ \E i \in DOMAIN result : result[i].operation = "ADD"
    /\ \E j \in DOMAIN DataOf(RhsTable(op)) : DataOf(RhsTable(op))[j].OPERATION = NaN

====
